---- MODULE Spec2Model ----
(***************************************************************************)
(* OpenAlex preprint-server batch builder (src/openalex_preprints.py).     *)
(*                                                                         *)
(* The module holds one state machine per component of the pipeline:       *)
(*   SpecGet      api_get: one GET with retry/backoff                      *)
(*   SpecDate     iso_to_year_month: publication date -> "YYYY-MM" key     *)
(*   SpecResolve  the "Resolve server names" button handler                *)
(*   SpecBuild    the "Fetch & Build ZIP" button handler and               *)
(*                build_zip_from_selection                                 *)
(*   SpecTable    the metadata table servers.csv of the build              *)
(*   SpecTopics   build_topics_columns                                     *)
(*   SpecWorks    iter_works_for_source (SpecWorksFair: with fairness)     *)
(* Every specification owns its group of variables and leaves the other    *)
(* groups at their idle value.                                             *)
(***************************************************************************)
EXTENDS Integers, Sequences, FiniteSets, TLC

VARIABLES
    \* ---- api_get ----
    max_retries,   \* parameter max_retries
    sleep_s,       \* parameter sleep_s, in time units (see TimeScale)
    backoff,       \* local backoff, in time units
    attempt,       \* iterations of "for _ in range(max_retries)" started so far
    responses,     \* status codes received, in order (r.status_code per request)
    waits,         \* durations passed to time.sleep(backoff), in order
    polite,        \* durations passed to time.sleep(sleep_s), in order
    outcome,       \* "running" | "returned" | "raised"
    \* ---- iso_to_year_month ----
    iso_date,      \* the argument: a publication_date value
    ym,            \* the call's result ("pending" before the call)
    \* ---- st.session_state ----
    candidates_map,  \* name -> [candidate dicts]
    selections_map,  \* name -> [selected short_ids]
    \* ---- the "Resolve server names" handler ----
    unique_names,  \* the names detected in step 1, deduplicated, in order
    per_page,      \* sidebar "Max candidates per server"
    res_pc,        \* "ready" | "primary" | "fallback" | "done"
    res_idx,       \* position of the loop over unique_names (1-based)
    queries,       \* the /sources queries issued in this batch, in order
    answers,       \* what each of these queries came to, in the same order
    failed_names,  \* names whose resolve_candidates call raised in this batch
    \* ---- the "Fetch & Build ZIP" handler and build_zip_from_selection ----
    monthly_enabled, \* sidebar "Include monthly aggregation"
    bld_pc,        \* "ready" | "fetch" | "page" | "work" | "done" | "failed"
    chosen_sids,   \* the deduplicated identifiers
    bld_idx,       \* position of "for sid in chosen_sids" (1-based)
    requests,      \* the api_get calls of the build, in order
    servers_rows,  \* one flat row per fetched source
    yearly_data,   \* source_id -> year -> counters
    years_seen,
    monthly_data,  \* source_id -> "YYYY-MM" -> counters
    months_seen,
    cursor,        \* cursor of the next works request (0 is "*")
    page_works,    \* works of the page received that are not yet yielded
    page_next,     \* meta.next_cursor of the page received (0: none)
    output,        \* what the handler got back from the builder
    error_shown,   \* st.error("Failed to build ZIP: ...") was called
    failed_at,     \* index of the source one of whose requests failed (0: none)
    applied,       \* source_id -> the counts_by_year lists applied to it, in order
    streamed,      \* source_id -> the works streamed for it (a bag)
    \* ---- the metadata table of build_zip_from_selection ----
    flat_rows,     \* servers_rows: the flat dict of every fetched source
    all_columns,   \* the set all_columns
    servers_df,    \* the DataFrame of line 753
    tbl_pc,        \* "loop" | "built"
    \* ---- build_topics_columns ----
    topics,        \* the argument: a record's "topics" value
    topics_cols,   \* the call's result
    \* ---- iter_works_for_source ----
    wk_sid,        \* parameter sid
    date_from,     \* parameter date_from (<<>> is None)
    date_to,       \* parameter date_to
    use_primary_location,
    use_host_venue,
    next_url,      \* the URL of the next page request
    wk_pc,         \* "request" | "yield" | "done" | "raised"
    wk_requests,   \* the URLs requested, in order
    pages,         \* the pages received, in order
    pending,       \* the works of the current page that are not yet yielded
    yielded        \* the dicts yielded, in order

getVars == <<max_retries, sleep_s, backoff, attempt, responses, waits, polite, outcome>>
dateVars == <<iso_date, ym>>
sessVars == <<candidates_map, selections_map>>
resVars == <<unique_names, per_page, res_pc, res_idx, queries, answers, failed_names>>
bldVars == <<monthly_enabled, bld_pc, chosen_sids, bld_idx, requests, servers_rows,
             yearly_data, years_seen, monthly_data, months_seen, cursor, page_works,
             page_next, output, error_shown, failed_at, applied, streamed>>

tblVars == <<flat_rows, all_columns, servers_df, tbl_pc>>
topVars == <<topics, topics_cols>>
wrkVars == <<wk_sid, date_from, date_to, use_primary_location, use_host_venue, next_url,
             wk_pc, wk_requests, pages, pending, yielded>>
auxVars == <<tblVars, topVars, wrkVars>>
vars == <<getVars, dateVars, sessVars, resVars, bldVars, auxVars>>

(***************************************************************************)
(* Bounds of the model.                                                    *)
(***************************************************************************)
\* largest max_retries the model draws (the code's default is 5)
MaxRetriesBound == 5
\* most "-"-separated parts of a publication_date string the model draws
MaxDateParts == 3
\* most names in unique_names
MaxNames == 3
\* most identifiers selected for one name
MaxSel == 1
\* most works pages the API serves during one build
MaxPages == 2
\* most works the API serves during one build
MaxWorks == 2
\* most rows of a metadata table
MaxRows == 2
\* longest topics list
MaxTopics == 3

(***************************************************************************)
(* Text.  A Python str is a sequence of one-character strings; a date      *)
(* string is kept as the list of its parts between "-" characters, which   *)
(* is what str.split("-") returns (no part holds a "-").                   *)
(***************************************************************************)
Digits == {"0", "1", "2", "3", "4", "5", "6", "7", "8", "9"}

DigitVal(c) ==
    CASE c = "0" -> 0 [] c = "1" -> 1 [] c = "2" -> 2 [] c = "3" -> 3
      [] c = "4" -> 4 [] c = "5" -> 5 [] c = "6" -> 6 [] c = "7" -> 7
      [] c = "8" -> 8 [] c = "9" -> 9

DigitChar(d) ==
    CASE d = 0 -> "0" [] d = 1 -> "1" [] d = 2 -> "2" [] d = 3 -> "3"
      [] d = 4 -> "4" [] d = 5 -> "5" [] d = 6 -> "6" [] d = 7 -> "7"
      [] d = 8 -> "8" [] d = 9 -> "9"

\* str.isdigit() over the model's alphabet: non-empty and all digits
IsDigitStr(s) == Len(s) > 0 /\ \A i \in 1..Len(s) : s[i] \in Digits

\* int(s) for a digit string
RECURSIVE ToInt(_)
ToInt(s) ==
    IF Len(s) = 0 THEN 0
    ELSE 10 * ToInt(SubSeq(s, 1, Len(s) - 1)) + DigitVal(s[Len(s)])

\* str(n) for n >= 0
RECURSIVE IntToStr(_)
IntToStr(n) ==
    IF n < 10 THEN <<DigitChar(n)>>
    ELSE Append(IntToStr(n \div 10), DigitChar(n % 10))

\* f"{n:0{width}d}": zero-padded to at least width characters
RECURSIVE ZeroPad(_, _)
ZeroPad(s, width) == IF Len(s) >= width THEN s ELSE ZeroPad(<<"0">> \o s, width)

FormatInt(n, width) == ZeroPad(IntToStr(n), width)

\* f"{y:04d}-{m:02d}"
FormatYearMonth(y, m) == FormatInt(y, 4) \o <<"-">> \o FormatInt(m, 2)

(***************************************************************************)
(* iso_to_year_month (lines 236-250).                                      *)
(*                                                                         *)
(* A publication_date value is None, an int (a JSON number) or a str.      *)
(* The result is a key, None, or an exception leaving the function.        *)
(***************************************************************************)
NoneDate == [kind |-> "none"]
IntDate(n) == [kind |-> "int", n |-> n]
StrDate(parts) == [kind |-> "str", parts |-> parts]

KeyResult(k) == [kind |-> "key", key |-> k]
NoneResult == [kind |-> "none"]
RaiseResult == [kind |-> "raise"]
\* the call has not been made yet
PendingResult == [kind |-> "pending"]

IsLeap(y) == (y % 4 = 0 /\ y % 100 # 0) \/ y % 400 = 0

DaysInMonth(y, m) ==
    IF m = 2 THEN (IF IsLeap(y) THEN 29 ELSE 28)
    ELSE IF m \in {4, 6, 9, 11} THEN 30 ELSE 31

\* the date portion "YYYY-MM-DD" names a day of the calendar (MINYEAR = 1)
ValidYMD(p1, p2, p3) ==
    /\ Len(p1) = 4 /\ IsDigitStr(p1)
    /\ Len(p2) = 2 /\ IsDigitStr(p2)
    /\ Len(p3) = 2 /\ IsDigitStr(p3)
    /\ ToInt(p1) >= 1
    /\ ToInt(p2) \in 1..12
    /\ ToInt(p3) \in 1..DaysInMonth(ToInt(p1), ToInt(p2))

\* a time portion without ":" (no part holds one): HH, HHMM or HHMMSS
\* (CPython 3.11 and later; the separator before it may be any character)
ValidBasicTime(t) ==
    /\ IsDigitStr(t)
    /\ Len(t) \in {2, 4, 6}
    /\ ToInt(SubSeq(t, 1, 2)) <= 23
    /\ \A i \in {3, 5} : i < Len(t) => ToInt(SubSeq(t, i, i + 1)) <= 59

\* datetime.fromisoformat(s) succeeds, for a str of at most four parts
\* (each part of the model's alphabet: digits and letters, at most 6 long)
FromIsoFormatOk(parts) ==
    CASE Len(parts) <= 2 -> FALSE
      [] Len(parts) = 3 -> ValidYMD(parts[1], parts[2], parts[3])
      [] Len(parts) = 4 -> ValidYMD(parts[1], parts[2], parts[3]) /\ ValidBasicTime(parts[4])

\* the except branch: parts = str(iso_date).split("-")
SplitFallback(parts) ==
    IF Len(parts) = 2
    THEN \* int(y), int(m): ValueError on a part that is no number
         IF IsDigitStr(parts[1]) /\ IsDigitStr(parts[2])
         THEN KeyResult(FormatYearMonth(ToInt(parts[1]), ToInt(parts[2])))
         ELSE RaiseResult
    ELSE IF Len(parts) = 1 /\ IsDigitStr(parts[1])
    THEN KeyResult(FormatYearMonth(ToInt(parts[1]), 1))
    ELSE NoneResult

\* "not iso_date": None, 0 and "" are falsy
Falsy(d) ==
    \/ d.kind = "none"
    \/ d.kind = "int" /\ d.n = 0
    \/ d.kind = "str" /\ d.parts = <<<<>>>>

IsoToYearMonth(d) ==
    IF Falsy(d) THEN NoneResult
    ELSE IF d.kind = "int"
    THEN \* fromisoformat raises TypeError; str(n) has one part
         SplitFallback(<<IntToStr(d.n)>>)
    ELSE IF FromIsoFormatOk(d.parts)
    THEN KeyResult(FormatYearMonth(ToInt(d.parts[1]), ToInt(d.parts[2])))
    ELSE SplitFallback(d.parts)

\* the parts the model builds date strings from
DateParts ==
    { <<>>,
      <<"2", "0", "2", "1">>, <<"0", "0", "0", "0">>,
      <<"0", "3">>, <<"1", "3">>, <<"1", "5">>, <<"2", "1">>,
      <<"3">>, <<"a", "b">> }

RECURSIVE SeqsUpTo(_, _)
\* the sequences over S of length 0..n
SeqsUpTo(S, n) ==
    IF n = 0 THEN {<<>>}
    ELSE LET shorter == SeqsUpTo(S, n - 1)
         IN shorter \cup {Append(s, x) : s \in shorter, x \in S}

DateValues ==
    {NoneDate, IntDate(0), IntDate(2021)}
        \cup {StrDate(p) : p \in SeqsUpTo(DateParts, MaxDateParts) \ {<<>>}}

DateInit ==
    /\ iso_date \in DateValues
    /\ ym = PendingResult

DateIdle ==
    /\ iso_date = NoneDate
    /\ ym = [kind |-> "idle"]

CallIsoToYearMonth ==
    /\ ym = PendingResult
    /\ ym' = IsoToYearMonth(iso_date)
    /\ UNCHANGED iso_date
    /\ UNCHANGED <<getVars, sessVars, resVars, bldVars, auxVars>>

DateNext == CallIsoToYearMonth

(***************************************************************************)
(* Python dicts.  A dict keeps its keys in insertion order, so it is a     *)
(* sequence of [key, value] entries with distinct keys.                    *)
(***************************************************************************)
EmptyDict == <<>>

DictKeys(d) == {d[i].key : i \in 1..Len(d)}

DictHas(d, k) == k \in DictKeys(d)

\* d[k], for a key of d
DictGet(d, k) == d[CHOOSE i \in 1..Len(d) : d[i].key = k].value

\* d[k] = v: an existing key keeps its place, a new key goes last
DictPut(d, k, v) ==
    IF DictHas(d, k)
    THEN [i \in 1..Len(d) |-> IF d[i].key = k THEN [key |-> k, value |-> v] ELSE d[i]]
    ELSE Append(d, [key |-> k, value |-> v])

\* the sequences over S of length 0..n without a repeated element
DistinctSeqsUpTo(S, n) ==
    {q \in SeqsUpTo(S, n) : \A i, j \in 1..Len(q) : i # j => q[i] # q[j]}

(***************************************************************************)
(* resolve_candidates (lines 116-128) and the "Resolve server names"       *)
(* handler (lines 409-426).                                                *)
(*                                                                         *)
(* A candidate's "id" is a list of tokens whose concatenation is the       *)
(* string; UrlPrefix stands for "https://openalex.org/".  A missing, null  *)
(* or empty id is the empty list ("c.get('id') or ''").                    *)
(***************************************************************************)
UrlPrefix == "https://openalex.org/"

\* .replace("https://openalex.org/", ""): every occurrence is removed
StripPrefix(id) == SelectSeq(id, LAMBDA t : t # UrlPrefix)

\* the names step 1 may detect
NameChoices == {"arXiv", "bioRxiv", "medRxiv"}

\* the per_page values the model draws (the sidebar allows 1..100)
PerPageChoices == {1, 2}

\* the ids the API may give a candidate
CandidateIds == {<<>>, <<UrlPrefix, "S1">>, <<UrlPrefix, "S2">>}

\* an annotation that keeps the full identifier
AnnotateKeepsPrefix(results) ==
    [i \in 1..Len(results) |-> [id |-> results[i], short_id |-> results[i]]]

\* "for c in results: c['short_id'] = ..."
Annotate(results) ==
    [i \in 1..Len(results) |-> [id |-> results[i], short_id |-> StripPrefix(results[i])]]

\* what one api_get(...).json().get("results", []) may come to: an exception
\* (api_get raised, or the body is no JSON object) or a list of at most
\* per_page candidates
QueryOutcomes ==
    {[ok |-> FALSE, results |-> <<>>]}
        \cup {[ok |-> TRUE, results |-> r] : r \in SeqsUpTo(CandidateIds, per_page)}

PhraseQuery(name) == [name |-> name, mode |-> "filter=display_name.search", per_page |-> per_page]
SearchQuery(name) == [name |-> name, mode |-> "search", per_page |-> per_page]

ResolveInit ==
    /\ unique_names \in DistinctSeqsUpTo(NameChoices, MaxNames) \ {<<>>}
    /\ per_page \in PerPageChoices
    /\ candidates_map = EmptyDict
    /\ selections_map = EmptyDict
    /\ res_pc = "ready"
    /\ res_idx = 0
    /\ queries = <<>>
    /\ answers = <<>>
    /\ failed_names = {}

ResolveIdle ==
    /\ unique_names = <<>>
    /\ per_page = 0
    /\ res_pc = "idle"
    /\ res_idx = 0
    /\ queries = <<>>
    /\ answers = <<>>
    /\ failed_names = {}

\* the button is clicked (it is disabled without names): lines 410-414
ClickResolve ==
    /\ res_pc \in {"ready", "done"}
    /\ unique_names # <<>>
    /\ candidates_map' = EmptyDict
    /\ selections_map' = EmptyDict
    /\ res_pc' = "primary"
    /\ res_idx' = 1
    /\ queries' = <<>>
    /\ answers' = <<>>
    /\ failed_names' = {}
    /\ UNCHANGED <<unique_names, per_page>>
    /\ UNCHANGED <<getVars, dateVars, bldVars, auxVars>>

\* lines 423-425 and the loop's step: the name's entry is written and the
\* loop goes to the next name, or ends
RecordCandidates(name, cands) ==
    /\ candidates_map' = DictPut(candidates_map, name, cands)
    /\ selections_map' = DictPut(selections_map, name, <<>>)
    /\ IF res_idx < Len(unique_names)
       THEN res_idx' = res_idx + 1 /\ res_pc' = "primary"
       ELSE res_idx' = res_idx /\ res_pc' = "done"

\* the handler's except branch (lines 419-422), then lines 423-425
ResolveRaisesAbort(name) ==
    /\ failed_names' = failed_names \cup {name}
    /\ res_pc' = "done"
    /\ UNCHANGED <<candidates_map, selections_map, res_idx>>

ResolveRaises(name) ==
    /\ failed_names' = failed_names \cup {name}
    /\ RecordCandidates(name, <<>>)

\* resolve_candidates returns (lines 126-128), then lines 418, 423-425
ResolveReturns(name, results) ==
    /\ failed_names' = failed_names
    /\ RecordCandidates(name, Annotate(results))

\* lines 118-122: the exact-phrase query
ResolvePrimary ==
    /\ res_pc = "primary"
    /\ LET name == unique_names[res_idx] IN
        /\ queries' = Append(queries, PhraseQuery(name))
        /\ \E o \in QueryOutcomes :
            /\ answers' = Append(answers, o)
            /\ IF ~o.ok THEN ResolveRaises(name)
               ELSE IF o.results = <<>>
               THEN /\ res_pc' = "fallback"
                    /\ UNCHANGED <<candidates_map, selections_map, res_idx, failed_names>>
               ELSE ResolveReturns(name, o.results)
    /\ UNCHANGED <<unique_names, per_page>>
    /\ UNCHANGED <<getVars, dateVars, bldVars, auxVars>>

\* lines 123-125: the free-text query, made when the first gave no result
ResolveFallback ==
    /\ res_pc = "fallback"
    /\ LET name == unique_names[res_idx] IN
        /\ queries' = Append(queries, SearchQuery(name))
        /\ \E o \in QueryOutcomes :
            /\ answers' = Append(answers, o)
            /\ IF ~o.ok THEN ResolveRaises(name)
               ELSE ResolveReturns(name, o.results)
    /\ UNCHANGED <<unique_names, per_page>>
    /\ UNCHANGED <<getVars, dateVars, bldVars, auxVars>>

ResolveNext == ClickResolve \/ ResolvePrimary \/ ResolveFallback

(***************************************************************************)
(* api_get (lines 89-107).                                                 *)
(*                                                                         *)
(* Durations are exact rationals: sleep_s is a multiple of 0.1 s (the      *)
(* sidebar's step) and each retry multiplies backoff by 1.6 = 8/5, so a    *)
(* duration is kept as an integer number of units of 0.1 s / 5^k, where k  *)
(* is the largest number of multiplications a run can make.                *)
(***************************************************************************)
RECURSIVE Pow(_, _)
Pow(b, e) == IF e = 0 THEN 1 ELSE b * Pow(b, e - 1)

\* units per 0.1 s
TimeScale == Pow(5, MaxRetriesBound)

\* the sidebar's sleep_s values the model draws, in tenths of a second:
\* 0.0 (the minimum), 0.1, 0.6 (the default), 3.0 (the maximum)
SleepTenths == {0, 1, 6, 30}

\* status codes the server may answer with
Statuses == {200, 204, 404, 429, 500, 502, 503, 504}

\* "if r.status_code in (429, 500, 502, 503, 504)"
Retryable == {429, 500, 502, 503, 504}

\* a raise_for_status() that never raises
RaisesNever(status) == FALSE

\* requests.Response.raise_for_status(): raises HTTPError for 4xx and 5xx only
RaisesForStatus(status) == 400 <= status /\ status < 600

\* "backoff *= 1.6"
NextBackoff(b) == (b * 8) \div 5

GetInit ==
    /\ max_retries \in 0..MaxRetriesBound
    /\ \E t \in SleepTenths : sleep_s = t * TimeScale
    /\ backoff = sleep_s
    /\ attempt = 0
    /\ responses = <<>>
    /\ waits = <<>>
    /\ polite = <<>>
    /\ outcome = "running"

\* the variables of api_get while another component runs
GetIdle ==
    /\ max_retries = 0
    /\ sleep_s = 0
    /\ backoff = 0
    /\ attempt = 0
    /\ responses = <<>>
    /\ waits = <<>>
    /\ polite = <<>>
    /\ outcome = "idle"

\* one iteration of the loop: the request and what the code does with its status
ApiGetAttempt ==
    /\ outcome = "running"
    /\ attempt < max_retries
    /\ \E status \in Statuses :
        /\ attempt' = attempt + 1
        /\ responses' = Append(responses, status)
        /\ IF status = 200
           THEN /\ polite' = IF sleep_s > 0 THEN Append(polite, sleep_s) ELSE polite
                /\ outcome' = "returned"
                /\ UNCHANGED <<backoff, waits>>
           ELSE IF status \in Retryable
           THEN /\ waits' = Append(waits, backoff)
                /\ backoff' = NextBackoff(backoff)
                /\ UNCHANGED <<polite, outcome>>
           ELSE /\ outcome' = IF RaisesForStatus(status) THEN "raised" ELSE "running"
                /\ UNCHANGED <<backoff, waits, polite>>
    /\ UNCHANGED <<max_retries, sleep_s>>
    /\ UNCHANGED <<dateVars, sessVars, resVars, bldVars, auxVars>>

\* the loop has run max_retries times: "r.raise_for_status(); return r"
\* (with max_retries = 0 the name r is unbound and the statement raises)
ApiGetExhausted ==
    /\ outcome = "running"
    /\ attempt = max_retries
    /\ outcome' = IF responses = <<>> THEN "raised"
                  ELSE IF RaisesForStatus(responses[Len(responses)]) THEN "raised"
                  ELSE "returned"
    /\ UNCHANGED <<max_retries, sleep_s, backoff, attempt, responses, waits, polite>>
    /\ UNCHANGED <<dateVars, sessVars, resVars, bldVars, auxVars>>

GetNext == ApiGetAttempt \/ ApiGetExhausted

(***************************************************************************)
(* build_zip_from_selection (lines 525-808) and the "Fetch & Build ZIP"    *)
(* handler (lines 854-900).                                                *)
(*                                                                         *)
(* An identifier is a str, kept as its list of tokens like a candidate's   *)
(* id: "" is <<>> and "S1" is <<"S1">>.                                    *)
(***************************************************************************)
\* the keys of selections_map, in the order the resolve batch inserted them
NameOrder == <<"arXiv", "bioRxiv", "medRxiv", "ChemRxiv">>

\* the short_ids a selection may hold ("" for a candidate without an id)
SidChoices == {<<>>, <<"S1">>, <<"S2">>}

\* the selections of one name: the multiselect gives no option twice
SelectionLists == DistinctSeqsUpTo(SidChoices, MaxSel)

\* the candidate the review step listed for a selected short_id
CandidateOf(sid) ==
    [id |-> IF sid = <<>> THEN <<>> ELSE <<UrlPrefix>> \o sid, short_id |-> sid]

\* "for lst in selections_map.values(): chosen_sids.extend(lst)"
RECURSIVE FlattenValues(_)
FlattenValues(d) ==
    IF d = <<>> THEN <<>> ELSE Head(d).value \o FlattenValues(Tail(d))

\* "[x for x in chosen_sids if x and not (x in seen or seen.add(x))]"
RECURSIVE DedupeFrom(_, _, _)
DedupeFrom(list, seen, acc) ==
    IF list = <<>> THEN acc
    ELSE LET x == Head(list) IN
         IF x # <<>> /\ x \notin seen
         THEN DedupeFrom(Tail(list), seen \cup {x}, Append(acc, x))
         ELSE DedupeFrom(Tail(list), seen, acc)

\* a dedupe that keeps every truthy identifier
DedupeKeepsRepeats(list) == SelectSeq(list, LAMBDA x : x # <<>>)

Dedupe(list) == DedupeFrom(list, {}, <<>>)

\* a build that never raises ValueError("No sources selected.")
NeverEmpty(chosen) == FALSE

\* "if not chosen_sids"
NoSourcesSelected(chosen) == chosen = <<>>

(* ---- what the API may answer ---- *)
YearRow(y, w, c) == [year |-> y, works_count |-> w, cited_by_count |-> c]

\* the counts_by_year lists a Source record may carry; a year is an int
\* (a negative one is the model's year that str.isdigit() rejects)
CbyChoices ==
    { <<>>,
      <<YearRow(2021, 4, 1), YearRow(2019, 2, 0)>>,
      <<YearRow(-1, 9, 9), YearRow(2020, 1, 1), YearRow(2020, 6, 0)>>,
      <<YearRow(-1, 9, 9)>> }

\* the "id" of the record served for /sources/{sid}: the requested source,
\* or the source S1 it was merged into
RecordIdsFor(sid) == {<<UrlPrefix>> \o sid, <<UrlPrefix, "S1">>}

\* the source_ids a build can see
SourceIds == {StripPrefix(id) : id \in UNION {RecordIdsFor(sid) : sid \in SidChoices}}

NoRecord == [id |-> <<>>, counts_by_year |-> <<>>]

\* fetch_source(sid): api_get raises, or the record's JSON
FetchOutcomes(sid) ==
    {[ok |-> FALSE, src |-> NoRecord]}
        \cup {[ok |-> TRUE, src |-> [id |-> id, counts_by_year |-> cby]] :
                id \in RecordIdsFor(sid), cby \in CbyChoices}

\* a JSON number or null
Null == [null |-> TRUE, n |-> 0]
Num(n) == [null |-> FALSE, n |-> n]

\* "int(v or 0)"
IntOrZero(v) == IF v.null THEN 0 ELSE v.n

Work(d, c) == [publication_date |-> d, cited_by_count |-> c]

\* the works the API may serve
WorkChoices ==
    { Work(StrDate(<<<<"2", "0", "2", "1">>, <<"0", "3">>, <<"1", "5">>>>), Num(3)),
      Work(StrDate(<<<<"2", "0", "2", "1">>, <<"0", "3">>>>), Null),
      Work(StrDate(<<<<"2", "0", "2", "1">>>>), Num(1)),
      Work(NoneDate, Num(2)),
      Work(StrDate(<<<<"a", "b">>, <<"0", "3">>>>), Num(0)) }

\* works requests made so far, and works streamed so far, in this build
PagesRequested == Cardinality({i \in 1..Len(requests) : requests[i].kind = "works"})

RECURSIVE SumOver(_, _)
\* the sum of f over the finite set S
SumOver(f, S) ==
    IF S = {} THEN 0
    ELSE LET x == CHOOSE x \in S : TRUE IN f[x] + SumOver(f, S \ {x})

WorksStreamed == SumOver([sid \in SourceIds |-> SumOver(streamed[sid], WorkChoices)], SourceIds)

\* one works page: api_get raises, or "results" and "meta.next_cursor"
\* (0: absent, null or empty)
PageOutcomes ==
    {[ok |-> FALSE, works |-> <<>>, next |-> 0]}
        \cup {[ok |-> TRUE, works |-> ws, next |-> nx] :
                ws \in SeqsUpTo(WorkChoices, MaxWorks - WorksStreamed),
                nx \in {0} \cup (IF PagesRequested + 1 < MaxPages THEN {cursor + 1} ELSE {})}

(* ---- yearly buckets (lines 682-690) ---- *)
\* "y.isdigit()" for y = str(year) of an int
YearIsDigit(y) == y >= 0

DigitYears(cby) == {y \in {cby[i].year : i \in 1..Len(cby)} : YearIsDigit(y)}

\* a bucket that adds the snapshot to what it holds
UpsertYearAdds(ymap, row) ==
    LET old == IF DictHas(ymap, row.year) THEN DictGet(ymap, row.year)
               ELSE [works_count |-> 0, cited_by_count |-> 0]
    IN DictPut(ymap, row.year,
               [works_count |-> old.works_count + row.works_count,
                cited_by_count |-> old.cited_by_count + row.cited_by_count])

\* lines 688-690: setdefault, then both counters are assigned
UpsertYear(ymap, row) ==
    DictPut(ymap, row.year,
            [works_count |-> row.works_count, cited_by_count |-> row.cited_by_count])

RECURSIVE ApplyCounts(_, _)
\* "for row in cby"
ApplyCounts(ymap, cby) ==
    IF cby = <<>> THEN ymap
    ELSE ApplyCounts(IF YearIsDigit(Head(cby).year) THEN UpsertYear(ymap, Head(cby)) ELSE ymap,
                     Tail(cby))

\* data.get(sid, {})
MapOf(data, sid) == IF DictHas(data, sid) THEN DictGet(data, sid) ELSE EmptyDict

\* yearly_data after the record's counts_by_year is applied for source_id
ApplyYearly(yd, source_id, cby) ==
    IF DigitYears(cby) = {} THEN yd
    ELSE DictPut(yd, source_id, ApplyCounts(MapOf(yd, source_id), cby))

(* ---- monthly buckets (lines 702-708) ---- *)
\* a bucket whose citation counter is assigned, not added to
AddWorkOverwrites(mmap, key, cites) ==
    LET old == IF DictHas(mmap, key) THEN DictGet(mmap, key)
               ELSE [works_count |-> 0, cited_by_count |-> 0]
    IN DictPut(mmap, key,
               [works_count |-> old.works_count + 1, cited_by_count |-> cites])

\* lines 706-708
AddWork(mmap, key, cites) ==
    LET old == IF DictHas(mmap, key) THEN DictGet(mmap, key)
               ELSE [works_count |-> 0, cited_by_count |-> 0]
    IN DictPut(mmap, key,
               [works_count |-> old.works_count + 1,
                cited_by_count |-> old.cited_by_count + cites])

(* ---- the wide tables (lines 755-787) ---- *)
RECURSIVE SortYears(_)
\* sorted(years_seen, key=int)
SortYears(S) ==
    IF S = {} THEN <<>>
    ELSE LET m == CHOOSE x \in S : \A y \in S : x <= y
         IN <<m>> \o SortYears(S \ {m})

\* ord(c) for the characters of a month key
CharOrd(c) == IF c = "-" THEN 45 ELSE 48 + DigitVal(c)

RECURSIVE StrLeq(_, _)
\* a <= b for two str
StrLeq(a, b) ==
    IF a = <<>> THEN TRUE
    ELSE IF b = <<>> THEN FALSE
    ELSE IF Head(a) = Head(b) THEN StrLeq(Tail(a), Tail(b))
    ELSE CharOrd(Head(a)) < CharOrd(Head(b))

RECURSIVE SortMonths(_)
\* sorted(months_seen)
SortMonths(S) ==
    IF S = {} THEN <<>>
    ELSE LET m == CHOOSE x \in S : \A y \in S : StrLeq(x, y)
         IN <<m>> \o SortMonths(S \ {m})

\* two rows per entry of data, one cell per column, 0 where the entry has
\* no bucket for the column
WideRows(data, cols) ==
    [k \in 1..(2 * Len(data)) |->
        LET e == data[(k + 1) \div 2]
            metric == IF k % 2 = 1 THEN "works_count" ELSE "cited_by_count"
        IN [source_id |-> e.key,
            metric |-> metric,
            cells |-> [c \in 1..Len(cols) |->
                        IF DictHas(e.value, cols[c])
                        THEN DictGet(e.value, cols[c])[metric] ELSE 0]]]

YearlyTable(yd, ys) ==
    [columns |-> SortYears(ys), rows |-> WideRows(yd, SortYears(ys))]

\* the column "note" of the placeholder
NoteColumn == <<"n", "o", "t", "e">>

MonthlyTable(md, ms, enabled) ==
    IF enabled /\ ms # {}
    THEN [placeholder |-> FALSE, columns |-> SortMonths(ms),
          rows |-> WideRows(md, SortMonths(ms))]
    ELSE [placeholder |-> TRUE, columns |-> <<NoteColumn>>,
          rows |-> <<[source_id |-> <<>>, metric |-> "info", cells |-> <<0>>]>>]

NoOutput == [kind |-> "none"]

\* what build_zip_from_selection returns (lines 740-808)
Package(rows, yd, ys, md, ms) ==
    [kind |-> "zip",
     servers |-> rows,
     yearly |-> YearlyTable(yd, ys),
     monthly |-> MonthlyTable(md, ms, monthly_enabled),
     selected_source_ids |-> chosen_sids']

(* ---- the handler ---- *)
BuildInit ==
    /\ \E k \in 1..MaxNames : \E lists \in [1..k -> SelectionLists] :
        /\ selections_map = [i \in 1..k |-> [key |-> NameOrder[i], value |-> lists[i]]]
        /\ candidates_map =
              [i \in 1..k |-> [key |-> NameOrder[i],
                               value |-> [j \in 1..Len(lists[i]) |-> CandidateOf(lists[i][j])]]]
    /\ monthly_enabled \in BOOLEAN
    /\ bld_pc = "ready"
    /\ chosen_sids = <<>>
    /\ bld_idx = 0
    /\ requests = <<>>
    /\ servers_rows = <<>>
    /\ yearly_data = EmptyDict
    /\ years_seen = {}
    /\ monthly_data = EmptyDict
    /\ months_seen = {}
    /\ cursor = 0
    /\ page_works = <<>>
    /\ page_next = 0
    /\ output = NoOutput
    /\ error_shown = FALSE
    /\ failed_at = 0
    /\ applied = [sid \in SourceIds |-> <<>>]
    /\ streamed = [sid \in SourceIds |-> [w \in WorkChoices |-> 0]]

BuildIdle ==
    /\ monthly_enabled = FALSE
    /\ bld_pc = "idle"
    /\ chosen_sids = <<>>
    /\ bld_idx = 0
    /\ requests = <<>>
    /\ servers_rows = <<>>
    /\ yearly_data = EmptyDict
    /\ years_seen = {}
    /\ monthly_data = EmptyDict
    /\ months_seen = {}
    /\ cursor = 0
    /\ page_works = <<>>
    /\ page_next = 0
    /\ output = NoOutput
    /\ error_shown = FALSE
    /\ failed_at = 0
    /\ applied = <<>>
    /\ streamed = <<>>

\* the source's iteration ends (lines 722-738): the loop takes the next
\* identifier, or ends and the tables and the archive are built and returned
NextSource ==
    /\ error_shown' = error_shown
    /\ cursor' = 0
    /\ page_works' = <<>>
    /\ page_next' = 0
    /\ IF bld_idx < Len(chosen_sids)
       THEN /\ bld_idx' = bld_idx + 1
            /\ bld_pc' = "fetch"
            /\ output' = output
       ELSE /\ bld_idx' = bld_idx
            /\ bld_pc' = "done"
            /\ output' = Package(servers_rows', yearly_data', years_seen',
                                 monthly_data', months_seen')

\* a build that drops the failing source and goes on with the next one
BuildFailsSkipsSource == NextSource

\* an exception leaves build_zip_from_selection and the handler reports it
\* (lines 899-900)
BuildFails ==
    /\ bld_pc' = "failed"
    /\ error_shown' = TRUE
    /\ UNCHANGED <<bld_idx, output, cursor, page_works, page_next>>

\* the button is clicked (it is disabled while candidates_map is empty):
\* lines 854-856 and 545-566
ClickBuild ==
    /\ bld_pc = "ready"
    /\ candidates_map # EmptyDict
    /\ chosen_sids' = Dedupe(FlattenValues(selections_map))
    /\ UNCHANGED <<requests, servers_rows, yearly_data, years_seen, monthly_data,
                   months_seen, failed_at, applied, streamed>>
    /\ IF NoSourcesSelected(chosen_sids')
       THEN BuildFails
       ELSE IF chosen_sids' = <<>>
       THEN /\ bld_pc' = "done"
            /\ output' = Package(servers_rows, yearly_data, years_seen, monthly_data, months_seen)
            /\ UNCHANGED <<bld_idx, error_shown, cursor, page_works, page_next>>
       ELSE /\ bld_pc' = "fetch"
            /\ bld_idx' = 1
            /\ UNCHANGED <<output, error_shown, cursor, page_works, page_next>>
    /\ UNCHANGED monthly_enabled
    /\ UNCHANGED <<getVars, dateVars, sessVars, resVars, auxVars>>

\* the source_id of the first record of the build
FirstSourceId == servers_rows[1].source_id

\* flat["source_id"] of the source the loop is at
CurrentSourceId == servers_rows[Len(servers_rows)].source_id

\* lines 645-690 and the branch at 693: the record is fetched, its row and
\* its yearly buckets are stored
FetchSource ==
    /\ bld_pc = "fetch"
    /\ UNCHANGED <<monthly_enabled, chosen_sids, monthly_data, months_seen, streamed>>
    /\ LET sid == chosen_sids[bld_idx] IN
        /\ requests' = Append(requests,
                              [idx |-> bld_idx, kind |-> "source", sid |-> sid, cursor |-> 0])
        /\ \E o \in FetchOutcomes(sid) :
            IF ~o.ok
            THEN /\ failed_at' = bld_idx
                 /\ UNCHANGED <<servers_rows, yearly_data, years_seen, applied>>
                 /\ BuildFails
            ELSE LET source_id == StripPrefix(o.src.id)
                     cby == o.src.counts_by_year
                 IN /\ failed_at' = failed_at
                    /\ servers_rows' = Append(servers_rows, [source_id |-> source_id])
                    /\ yearly_data' = ApplyYearly(yearly_data, source_id, cby)
                    /\ years_seen' = years_seen \cup DigitYears(cby)
                    /\ applied' = [applied EXCEPT ![source_id] = Append(@, cby)]
                    /\ IF monthly_enabled
                       THEN /\ bld_pc' = "page"
                            /\ UNCHANGED <<bld_idx, output, error_shown, cursor,
                                           page_works, page_next>>
                       ELSE NextSource
    /\ UNCHANGED <<getVars, dateVars, sessVars, resVars, auxVars>>

\* the generator's loop after a page (lines 169-172): without a next cursor
\* it ends, and so does the source's iteration
AfterPage(nxt) ==
    IF nxt = 0
    THEN NextSource
    ELSE /\ bld_pc' = "page"
         /\ cursor' = nxt
         /\ page_works' = <<>>
         /\ page_next' = 0
         /\ UNCHANGED <<bld_idx, output, error_shown>>

\* iter_works_for_source requests a page (lines 164-166)
RequestPage ==
    /\ bld_pc = "page"
    /\ UNCHANGED <<monthly_enabled, chosen_sids, servers_rows, yearly_data, years_seen,
                   monthly_data, months_seen, applied, streamed>>
    /\ requests' = Append(requests,
                          [idx |-> bld_idx, kind |-> "works", sid |-> CurrentSourceId,
                           cursor |-> cursor])
    /\ \E o \in PageOutcomes :
        IF ~o.ok
        THEN /\ failed_at' = bld_idx
             /\ BuildFails
        ELSE /\ failed_at' = failed_at
             /\ IF o.works = <<>>
                THEN AfterPage(o.next)
                ELSE /\ bld_pc' = "work"
                     /\ page_works' = o.works
                     /\ page_next' = o.next
                     /\ UNCHANGED <<bld_idx, output, error_shown, cursor>>
    /\ UNCHANGED <<getVars, dateVars, sessVars, resVars, auxVars>>

\* the generator yields the page's next work and the loop body takes it
\* (lines 167-168 and 702-709)
ConsumeWork ==
    /\ bld_pc = "work"
    /\ UNCHANGED <<monthly_enabled, chosen_sids, requests, servers_rows, yearly_data,
                   years_seen, failed_at, applied>>
    /\ LET w == Head(page_works)
           key == IsoToYearMonth(w.publication_date)
           source_id == CurrentSourceId
       IN /\ streamed' = [streamed EXCEPT ![source_id][w] = @ + 1]
          /\ IF key.kind = "raise"
             THEN /\ UNCHANGED <<monthly_data, months_seen>>
                  /\ BuildFails
             ELSE /\ IF key.kind = "key"
                     THEN /\ months_seen' = months_seen \cup {key.key}
                          /\ monthly_data' =
                                DictPut(monthly_data, source_id,
                                        AddWork(MapOf(monthly_data, source_id), key.key,
                                                IntOrZero(w.cited_by_count)))
                     ELSE UNCHANGED <<monthly_data, months_seen>>
                  /\ IF Tail(page_works) = <<>>
                     THEN AfterPage(page_next)
                     ELSE /\ bld_pc' = "work"
                          /\ page_works' = Tail(page_works)
                          /\ UNCHANGED <<bld_idx, output, error_shown, cursor, page_next>>
    /\ UNCHANGED <<getVars, dateVars, sessVars, resVars, auxVars>>

BuildNext == ClickBuild \/ FetchSource \/ RequestPage \/ ConsumeWork

(***************************************************************************)
(* Claims about api_get (SpecGet).                                         *)
(***************************************************************************)
\* C1: with max_retries >= 3 and any sleep_s the sidebar allows, the answers
\* 503, 503, 200 end the call after three requests with the 200 response
\* returned and two backoff waits, the second strictly longer than the first.
C1_RetryThenSuccess ==
    (/\ max_retries >= 3
     /\ responses = <<503, 503, 200>>)
        => /\ attempt = 3
           /\ outcome = "returned"
           /\ Len(waits) = 2
           /\ waits[2] > waits[1]

\* C2: a response whose status is neither 200 nor retryable is the last one
\* of the call (no request follows it), no backoff wait is made for it, and
\* the call does not return: once it has ended, it has ended by raising.
C2_OtherStatusFails ==
    \A i \in 1..Len(responses) :
        (responses[i] # 200 /\ responses[i] \notin Retryable)
            => /\ i = Len(responses)
               /\ outcome \in {"running", "raised"}
               /\ Len(waits) = Cardinality({j \in 1..i : responses[j] \in Retryable})

\* every response received so far has a retryable status
AllRetryable == \A i \in 1..Len(responses) : responses[i] \in Retryable

\* C15: with max_retries >= 1 the call makes at most max_retries requests;
\* while every response is retryable it keeps running until the
\* max_retries-th one, and once it has ended it has ended by raising, after
\* exactly max_retries requests, with no response returned.
C15_RetryBudget ==
    max_retries >= 1 =>
        /\ Len(responses) <= max_retries
        /\ attempt = Len(responses)
        /\ AllRetryable =>
              /\ outcome \in {"running", "raised"}
              /\ outcome = "raised" => Len(responses) = max_retries
              /\ Len(responses) < max_retries => outcome = "running"
              /\ Len(waits) = Len(responses)

\* three retryable answers used up a budget of three and the call raised
C15_Witness ==
    /\ max_retries = 3
    /\ responses = <<503, 429, 500>>
    /\ outcome = "raised"

(***************************************************************************)
(* Claims about iso_to_year_month (SpecDate).                              *)
(***************************************************************************)
\* a str of the shape YYYY-MM-DD that names a day of the calendar
IsFullDate(d) ==
    /\ d.kind = "str"
    /\ Len(d.parts) = 3
    /\ ValidYMD(d.parts[1], d.parts[2], d.parts[3])

\* a str of the shape YYYY-MM
IsYearMonthShape(d) ==
    /\ d.kind = "str"
    /\ Len(d.parts) = 2
    /\ Len(d.parts[1]) = 4 /\ IsDigitStr(d.parts[1])
    /\ Len(d.parts[2]) = 2 /\ IsDigitStr(d.parts[2])

\* a str of four digits
IsBareYear(d) ==
    /\ d.kind = "str"
    /\ Len(d.parts) = 1
    /\ Len(d.parts[1]) = 4 /\ IsDigitStr(d.parts[1])

\* a key of the shape YYYY-MM
IsYearMonthKey(k) ==
    /\ Len(k) = 7
    /\ k[5] = "-"
    /\ \A i \in {1, 2, 3, 4, 6, 7} : k[i] \in Digits

\* C9: iso_to_year_month never fails and returns one YYYY-MM key or no key:
\* a full date gives its year and month, YYYY-MM gives itself, a bare
\* 4-digit year gives YYYY-01, and every other value gives no key.
C9_YearMonthTotal ==
    ym # PendingResult =>
        /\ ym.kind \in {"key", "none"}
        /\ ym.kind = "key" => IsYearMonthKey(ym.key)
        /\ IF IsFullDate(iso_date) \/ IsYearMonthShape(iso_date)
           THEN ym = KeyResult(iso_date.parts[1] \o <<"-">> \o iso_date.parts[2])
           ELSE IF IsBareYear(iso_date)
           THEN ym = KeyResult(iso_date.parts[1] \o <<"-", "0", "1">>)
           ELSE ym = NoneResult

(***************************************************************************)
(* Claims about the resolve batch (SpecResolve).                           *)
(***************************************************************************)
\* C6: a name whose resolution raised has an entry with zero candidates and
\* an empty selection, the loop still queries every later name, and after
\* the batch every input name has an entry in candidates_map.
C6_ResolveTolerant ==
    /\ \A n \in failed_names :
        /\ DictHas(candidates_map, n) /\ DictGet(candidates_map, n) = <<>>
        /\ DictHas(selections_map, n) /\ DictGet(selections_map, n) = <<>>
    /\ res_pc = "done" =>
        /\ DictKeys(candidates_map) = {unique_names[i] : i \in 1..Len(unique_names)}
        /\ \A i \in 1..Len(unique_names) :
            \E k \in 1..Len(queries) : queries[k] = PhraseQuery(unique_names[i])

\* the first name failed and a later one was resolved to a candidate
C6_Witness ==
    /\ res_pc = "done"
    /\ Len(unique_names) >= 2
    /\ unique_names[1] \in failed_names
    /\ DictHas(candidates_map, unique_names[2])
    /\ DictGet(candidates_map, unique_names[2]) # <<>>

\* the positions in the query log of the queries made for name n
QueriesFor(n) == {k \in 1..Len(queries) : queries[k].name = n}

\* an identifier without its URL prefix
ShortOf(id) == IF id # <<>> /\ Head(id) = UrlPrefix THEN Tail(id) ELSE id

\* C18: for every name, at most two queries are made, the exact-phrase one
\* first; the free-text one is made, with the same name and result cap, when
\* and only when the first succeeded with zero results; the candidates
\* recorded for a name whose resolution did not fail are the results of the
\* last query made for it, each with its short identifier.
C18_FallbackOnlyWhenEmpty ==
    \A i \in 1..Len(unique_names) :
        LET n == unique_names[i]
            Q == QueriesFor(n)
            first == CHOOSE k \in Q : \A j \in Q : k <= j
            last == CHOOSE k \in Q : \A j \in Q : j <= k
            primaryEmpty == answers[first].ok /\ answers[first].results = <<>>
        IN Q # {} =>
            /\ Cardinality(Q) <= 2
            /\ queries[first].mode = "filter=display_name.search"
            /\ Cardinality(Q) = 2 =>
                  /\ last = first + 1
                  /\ queries[last].mode = "search"
                  /\ queries[last].per_page = queries[first].per_page
                  /\ primaryEmpty
            /\ (primaryEmpty /\ DictHas(candidates_map, n)) => Cardinality(Q) = 2
            /\ (DictHas(candidates_map, n) /\ n \notin failed_names) =>
                  LET cands == DictGet(candidates_map, n) IN
                  /\ answers[last].ok
                  /\ Len(cands) = Len(answers[last].results)
                  /\ \A c \in 1..Len(cands) :
                        /\ cands[c].id = answers[last].results[c]
                        /\ cands[c].short_id = ShortOf(cands[c].id)

\* a name's exact-phrase query gave nothing and its free-text query gave a
\* candidate, which was recorded under its short identifier
C18_Witness ==
    /\ res_pc = "done"
    /\ \E i \in 1..Len(unique_names) :
          LET n == unique_names[i] IN
          /\ Cardinality(QueriesFor(n)) = 2
          /\ DictGet(candidates_map, n) # <<>>
          /\ DictGet(candidates_map, n)[1].short_id = <<"S1">>

(***************************************************************************)
(* Claims about the build (SpecBuild).                                     *)
(***************************************************************************)
\* the selection mapping, flattened
Flat == FlattenValues(selections_map)

\* the fetch_source calls made for identifier sid
SourceRequests(sid) ==
    {i \in 1..Len(requests) : requests[i].kind = "source" /\ requests[i].sid = sid}

\* the place of x's first occurrence in seq
FirstIndex(seq, x) == CHOOSE i \in 1..Len(seq) : seq[i] = x /\ \A j \in 1..(i - 1) : seq[j] # x

\* C3: the identifiers the build processes are the non-empty identifiers of
\* the flattened selection, each once, in the order of their first
\* occurrence; none is fetched twice and a finished build has fetched each
\* exactly once.
C3_DedupeFirstSeen ==
    bld_pc # "ready" =>
        /\ \A i, j \in 1..Len(chosen_sids) : i # j => chosen_sids[i] # chosen_sids[j]
        /\ {chosen_sids[i] : i \in 1..Len(chosen_sids)}
              = {Flat[i] : i \in 1..Len(Flat)} \ {<<>>}
        /\ \A i, j \in 1..Len(chosen_sids) :
              i < j => FirstIndex(Flat, chosen_sids[i]) < FirstIndex(Flat, chosen_sids[j])
        /\ \A i \in 1..Len(chosen_sids) : Cardinality(SourceRequests(chosen_sids[i])) <= 1
        /\ bld_pc = "done" =>
              \A i \in 1..Len(chosen_sids) : Cardinality(SourceRequests(chosen_sids[i])) = 1

\* the selection S1, S2, S1 was built: the repeat was dropped, the order kept
C3_Witness ==
    /\ bld_pc = "done"
    /\ Flat = <<<<"S1">>, <<"S2">>, <<"S1">>>>
    /\ chosen_sids = <<<<"S1">>, <<"S2">>>>

\* C4: a selection without a non-empty identifier makes the build fail at
\* once: the error is shown, no request was issued, no row, table or archive
\* exists.
C4_EmptySelectionFails ==
    (bld_pc # "ready" /\ \A i \in 1..Len(Flat) : Flat[i] = <<>>)
        => /\ bld_pc = "failed"
           /\ error_shown
           /\ requests = <<>>
           /\ servers_rows = <<>>
           /\ output = NoOutput

\* a selection holding only empty identifiers was submitted
C4_Witness ==
    /\ bld_pc = "failed"
    /\ Len(Flat) >= 1
    /\ \A i \in 1..Len(Flat) : Flat[i] = <<>>

\* C5: once a request of the k-th source has failed the build has failed:
\* the error is shown, nothing is returned, the failed request is the last
\* one and no request of a later source exists.
C5_FailureAborts ==
    failed_at # 0 =>
        /\ bld_pc = "failed"
        /\ error_shown
        /\ output = NoOutput
        /\ requests[Len(requests)].idx = failed_at
        /\ \A i \in 1..Len(requests) : requests[i].idx <= failed_at

\* a works page of the first of two sources failed
C5_Witness ==
    /\ failed_at = 1
    /\ Len(chosen_sids) = 2
    /\ requests[Len(requests)].kind = "works"
    /\ bld_pc = "failed"

\* C7: a source_id whose record's counts_by_year was applied one or more
\* times, always the same list, holds the buckets one application gives.
C7_YearlyOverwrite ==
    \A sid \in DOMAIN applied :
        (/\ applied[sid] # <<>>
         /\ \A i \in 1..Len(applied[sid]) : applied[sid][i] = applied[sid][1])
            => MapOf(yearly_data, sid) = ApplyCounts(EmptyDict, applied[sid][1])

\* the same non-empty snapshot was applied twice to one source_id
C7_Witness ==
    \E sid \in DOMAIN applied :
        /\ Len(applied[sid]) >= 2
        /\ applied[sid][2] = applied[sid][1]
        /\ DigitYears(applied[sid][1]) # {}

\* the month key of a work, <<>> when it has none
MonthKeyOf(w) ==
    LET r == IsoToYearMonth(w.publication_date)
    IN IF r.kind = "key" THEN r.key ELSE <<>>

\* the month key of every modelled work
MonthKeys == [w \in WorkChoices |-> MonthKeyOf(w)]

\* the modelled works whose month key is k
WorksOfMonth(k) == {w \in WorkChoices : MonthKeys[w] = k}

\* C8: the monthly buckets of a source are a function of the multiset of
\* works streamed for it: a month's works_count is the number of streamed
\* works with that key and its cited_by_count is the sum of their counts.
C8_MonthlyOrderIndependent ==
    \A sid \in DOMAIN streamed :
        LET bag == streamed[sid]
            mm == MapOf(monthly_data, sid)
            keys == {MonthKeys[w] : w \in {x \in WorkChoices : bag[x] > 0}} \ {<<>>}
        IN /\ DictKeys(mm) = keys
           /\ \A k \in keys :
                /\ DictGet(mm, k).works_count
                      = SumOver([w \in WorksOfMonth(k) |-> bag[w]], WorksOfMonth(k))
                /\ DictGet(mm, k).cited_by_count
                      = SumOver([w \in WorksOfMonth(k) |-> bag[w] * IntOrZero(w.cited_by_count)],
                                WorksOfMonth(k))

\* two works of one month with different citation counts were streamed for
\* one source
C8_Witness ==
    \E sid \in DOMAIN streamed : \E w1, w2 \in WorkChoices :
        /\ streamed[sid][w1] > 0 /\ streamed[sid][w2] > 0
        /\ w1 # w2
        /\ MonthKeys[w1] = MonthKeys[w2] /\ MonthKeys[w1] # <<>>
        /\ IntOrZero(w1.cited_by_count) # IntOrZero(w2.cited_by_count)
        /\ DictHas(MapOf(monthly_data, sid), MonthKeys[w1])

\* the rows of the yearly table for source_id and metric
YearlyRowsOf(source_id, metric) ==
    {k \in 1..Len(output.yearly.rows) :
        /\ output.yearly.rows[k].source_id = source_id
        /\ output.yearly.rows[k].metric = metric}

\* C10: the yearly table of a finished build has exactly two rows for every
\* processed source, a works_count row and a cited_by_count row, its columns
\* are the years seen in ascending order, and a cell is 0 where the source
\* has no bucket for the year.
C10_YearlyTwoRowsPerSource ==
    bld_pc = "done" =>
        LET t == output.yearly IN
        /\ Len(t.rows) = 2 * Len(servers_rows)
        /\ \A i \in 1..Len(servers_rows) :
              /\ Cardinality(YearlyRowsOf(servers_rows[i].source_id, "works_count")) = 1
              /\ Cardinality(YearlyRowsOf(servers_rows[i].source_id, "cited_by_count")) = 1
        /\ {t.columns[c] : c \in 1..Len(t.columns)} = years_seen
        /\ \A c \in 1..(Len(t.columns) - 1) : t.columns[c] < t.columns[c + 1]
        /\ \A k \in 1..Len(t.rows) : \A c \in 1..Len(t.columns) :
              ~DictHas(MapOf(yearly_data, t.rows[k].source_id), t.columns[c])
                  => t.rows[k].cells[c] = 0

\* C11: the monthly output of a finished build is the single placeholder row
\* with the note column exactly when monthly aggregation was not enabled, and
\* otherwise a wide table: month columns in ascending order and two rows for
\* every source with monthly buckets.
C11_MonthlyShape ==
    bld_pc = "done" =>
        LET t == output.monthly IN
        /\ t.placeholder <=> ~monthly_enabled
        /\ t.placeholder =>
              /\ t.columns = <<NoteColumn>>
              /\ Len(t.rows) = 1
              /\ t.rows[1].metric = "info"
        /\ ~t.placeholder =>
              /\ {t.columns[c] : c \in 1..Len(t.columns)} = months_seen
              /\ Len(t.rows) = 2 * Len(monthly_data)

\* the source_ids of the rows of servers.csv are pairwise different
DistinctRecords ==
    \A i, j \in 1..Len(servers_rows) :
        i # j => servers_rows[i].source_id # servers_rows[j].source_id

\* every processed record carried a non-empty counts_by_year
SnapshotsNonEmpty ==
    \A i \in 1..Len(servers_rows) :
        \A k \in 1..Len(applied[servers_rows[i].source_id]) :
            applied[servers_rows[i].source_id][k] # <<>>

\* C12: a finished build with monthly aggregation disabled, for n selected
\* identifiers whose records are n different sources, each with a non-empty
\* counts_by_year: servers.csv has n rows, the yearly table has 2n rows and
\* its columns are exactly the numeric years of the snapshots, and the
\* monthly table is the one placeholder row.
C12_EndToEndYearly ==
    (bld_pc = "done" /\ ~monthly_enabled /\ DistinctRecords /\ SnapshotsNonEmpty) =>
        LET n == Len(chosen_sids) IN
        /\ Len(output.servers) = n
        /\ Len(output.yearly.rows) = 2 * n
        /\ {output.yearly.columns[c] : c \in 1..Len(output.yearly.columns)}
              = UNION {UNION {DigitYears(applied[sid][k]) : k \in 1..Len(applied[sid])} :
                          sid \in DOMAIN applied}
        /\ output.monthly.placeholder
        /\ Len(output.monthly.rows) = 1

\* the (source_id, month) pairs that have a monthly bucket
MonthlyKeys(md) ==
    UNION {{<<md[i].key, md[i].value[j].key>> : j \in 1..Len(md[i].value)} : i \in 1..Len(md)}

\* the bucket of (source_id, month)
MonthlyBucket(md, sid, month) == DictGet(DictGet(md, sid), month)

\* what the step that takes the work w for source_id does to the buckets
OneBucketStep(w, source_id) ==
    LET r == IsoToYearMonth(w.publication_date) IN
    /\ yearly_data' = yearly_data
    /\ years_seen' = years_seen
    /\ r.kind # "key" => monthly_data' = monthly_data
    /\ r.kind = "key" =>
          LET b == <<source_id, r.key>>
              old == IF b \in MonthlyKeys(monthly_data)
                     THEN MonthlyBucket(monthly_data, source_id, r.key)
                     ELSE [works_count |-> 0, cited_by_count |-> 0]
          IN /\ MonthlyKeys(monthly_data') = MonthlyKeys(monthly_data) \cup {b}
             /\ MonthlyBucket(monthly_data', source_id, r.key)
                   = [works_count |-> old.works_count + 1,
                      cited_by_count |-> old.cited_by_count
                                            + (IF w.cited_by_count.null THEN 0
                                               ELSE w.cited_by_count.n)]
             /\ \A c \in MonthlyKeys(monthly_data) \ {b} :
                   MonthlyBucket(monthly_data', c[1], c[2])
                       = MonthlyBucket(monthly_data, c[1], c[2])

\* the works_count of all monthly buckets of source_id equals the number of
\* works streamed for it that have a month key
MonthlyCountsMatch ==
    \A sid \in DOMAIN streamed :
        LET mm == MapOf(monthly_data, sid)
            keyed == {w \in WorkChoices : MonthKeys[w] # <<>>}
        IN SumOver([i \in 1..Len(mm) |-> mm[i].value.works_count], 1..Len(mm))
              = SumOver([w \in keyed |-> streamed[sid][w]], keyed)

\* C17: the step that takes a streamed work leaves every yearly bucket alone
\* and changes at most one monthly bucket: with a month key it adds 1 and the
\* work's citation count (0 when missing) to the bucket of its source and
\* month, creating it if need be, and to no other; without a key it changes
\* none.  So a source's monthly works_count always sum to the number of its
\* streamed works that had a key.
C17_OneBucketPerWork ==
    /\ [][bld_pc = "work" => OneBucketStep(Head(page_works), CurrentSourceId)]_vars
    /\ []MonthlyCountsMatch

\* a source has yearly buckets and two monthly buckets, each from one work
C17_Witness ==
    /\ bld_pc = "done"
    /\ yearly_data # EmptyDict
    /\ \E i \in 1..Len(monthly_data) :
          /\ Len(monthly_data[i].value) = 2
          /\ DictHas(yearly_data, monthly_data[i].key)

\* C19: the requests of a build are made source after source in the order of
\* the deduplicated selection: the requests of source i are its record fetch
\* followed by its works pages, page after page from the cursor "*", all
\* before the first request of source i+1; no source is skipped; the works
\* pages of source i are asked for the source_id of its record; and without
\* monthly aggregation no works request is made.
C19_SequentialSources ==
    LET n == Len(requests) IN
    /\ \A k \in 1..n :
          /\ requests[k].idx \in 1..Len(chosen_sids)
          /\ requests[k].kind = "source" =>
                /\ requests[k].sid = chosen_sids[requests[k].idx]
                /\ requests[k].idx = (IF k = 1 THEN 1 ELSE requests[k - 1].idx + 1)
          /\ requests[k].kind = "works" =>
                /\ k > 1
                /\ requests[k].idx = requests[k - 1].idx
                /\ requests[k].sid = servers_rows[requests[k].idx].source_id
                /\ requests[k].cursor = (IF requests[k - 1].kind = "source" THEN 0
                                         ELSE requests[k - 1].cursor + 1)
    /\ ~monthly_enabled => \A k \in 1..n : requests[k].kind = "source"
    /\ bld_pc = "done" => Cardinality({requests[k].idx : k \in 1..n}) = Len(chosen_sids)

\* two sources were built with monthly aggregation: the first took two pages
\* before the record of the second was fetched
C19_Witness ==
    /\ bld_pc = "done"
    /\ Len(requests) = 5
    /\ [k \in 1..5 |-> requests[k].kind] = <<"source", "works", "works", "source", "works">>
    /\ [k \in 1..5 |-> requests[k].idx] = <<1, 1, 1, 2, 2>>

(***************************************************************************)
(* The metadata table servers.csv: build_zip_from_selection, lines 678-679 *)
(* and 741-753.                                                            *)
(***************************************************************************)
\* preferred_first (lines 741-750)
preferred_first ==
    << "source_id", "display_name", "type", "homepage_url", "issn_l", "issn", "country_code",
       "host_organization_name", "host_organization", "host_organization_lineage",
       "is_oa", "is_in_doaj", "is_indexed_in_scopus", "is_core",
       "works_count", "cited_by_count",
       "summary_stats__2yr_mean_citedness", "summary_stats__h_index", "summary_stats__i10_index",
       "ids__openalex", "ids__wikidata",
       "topics_display", "topics_subfields", "topics_domains",
       "works_api_url", "updated_date", "created_date" >>

\* the keys lines 671-676 give every flat row
AssignedColumns ==
    {"source_id", "display_name", "topics_display", "topics_subfields", "topics_domains",
     "raw_json"}

\* keys flatten_json may or may not give a row
OptionalColumns == {"type", "ids__openalex", "apc_usd", "abbreviated_title"}

\* the modelled column names outside preferred_first, in str order
ColumnOrder == <<"abbreviated_title", "apc_usd", "raw_json">>

\* the flat rows a record may come to; a value is a str
FlatChoices ==
    UNION {[AssignedColumns \cup opt -> {"v"}] : opt \in SUBSET OptionalColumns}

\* the elements of a list
Elems(seq) == {seq[i] : i \in 1..Len(seq)}

\* "[c for c in seq if c in S]"
RECURSIVE KeepIn(_, _)
KeepIn(seq, S) ==
    IF seq = <<>> THEN <<>>
    ELSE (IF Head(seq) \in S THEN <<Head(seq)>> ELSE <<>>) \o KeepIn(Tail(seq), S)

\* sorted(S) for a set of modelled column names
SortNames(S) == KeepIn(ColumnOrder, S)

\* a header made of the preferred columns only
HeaderPreferredOnly(columns) == KeepIn(preferred_first, columns) \o <<"raw_json">>

\* lines 751-752: remaining and servers_header
ServersHeader(columns) ==
    LET remaining == SortNames({c \in columns : c \notin Elems(preferred_first) /\ c # "raw_json"})
    IN KeepIn(preferred_first, columns) \o remaining \o <<"raw_json">>

\* row.get(col, "")
RowGet(row, col) == IF col \in DOMAIN row THEN row[col] ELSE ""

\* line 753: one dict per row, keyed by the header
ServersFrame(rows, header) ==
    [columns |-> header,
     rows |-> [i \in 1..Len(rows) |-> [col \in Elems(header) |-> RowGet(rows[i], col)]]]

NoFrame == [columns |-> <<>>, rows |-> <<>>]

TableInit ==
    /\ flat_rows = <<>>
    /\ all_columns = {}
    /\ servers_df = NoFrame
    /\ tbl_pc = "loop"

TableIdle ==
    /\ flat_rows = <<>>
    /\ all_columns = {}
    /\ servers_df = NoFrame
    /\ tbl_pc = "idle"

\* lines 678-679, once per source of the loop
AppendFlat ==
    /\ tbl_pc = "loop"
    /\ Len(flat_rows) < MaxRows
    /\ \E flat \in FlatChoices :
        /\ flat_rows' = Append(flat_rows, flat)
        /\ all_columns' = all_columns \cup DOMAIN flat
    /\ UNCHANGED <<servers_df, tbl_pc>>
    /\ UNCHANGED <<getVars, dateVars, sessVars, resVars, bldVars, topVars, wrkVars>>

\* lines 751-753, after the loop (which ran at least once, line 551)
BuildServersTable ==
    /\ tbl_pc = "loop"
    /\ flat_rows # <<>>
    /\ servers_df' = ServersFrame(flat_rows, ServersHeader(all_columns))
    /\ tbl_pc' = "built"
    /\ UNCHANGED <<flat_rows, all_columns>>
    /\ UNCHANGED <<getVars, dateVars, sessVars, resVars, bldVars, topVars, wrkVars>>

TableNext == AppendFlat \/ BuildServersTable

(***************************************************************************)
(* Claims about the metadata table (SpecTable).                            *)
(***************************************************************************)
\* C13: the header of the metadata table is, without repeats, exactly the
\* union of the column names of the flat rows, and every row of the table
\* has a value for every header column: the flat row's value, or the empty
\* string where the flat row lacks the column.
C13_Rectangular ==
    tbl_pc = "built" =>
        LET header == servers_df.columns IN
        /\ Elems(header) = UNION {DOMAIN flat_rows[i] : i \in 1..Len(flat_rows)}
        /\ \A i, j \in 1..Len(header) : i # j => header[i] # header[j]
        /\ Len(servers_df.rows) = Len(flat_rows)
        /\ \A i \in 1..Len(flat_rows) :
              /\ DOMAIN servers_df.rows[i] = Elems(header)
              /\ \A col \in Elems(header) :
                    servers_df.rows[i][col]
                        = IF col \in DOMAIN flat_rows[i] THEN flat_rows[i][col] ELSE ""

\* a table was built from two rows, each lacking a column the other has, one
\* of them outside preferred_first
C13_Witness ==
    /\ tbl_pc = "built"
    /\ Len(flat_rows) = 2
    /\ "apc_usd" \in DOMAIN flat_rows[1] \ DOMAIN flat_rows[2]
    /\ "type" \in DOMAIN flat_rows[2] \ DOMAIN flat_rows[1]
    /\ servers_df.rows[2]["apc_usd"] = ""

(***************************************************************************)
(* build_topics_columns (lines 211-234).                                   *)
(*                                                                         *)
(* A JSON value is a record with a field k: "absent" (the key is missing), *)
(* "null", "str" (field s), "num" (field n) or "dict" (a topic's subfield  *)
(* or domain object, field display_name).  A str is a list of tokens, so   *)
(* that a fragment and a joined column are lists of tokens too.            *)
(***************************************************************************)
JAbsent == [k |-> "absent"]
JNull == [k |-> "null"]
JStr(s) == [k |-> "str", s |-> s]
JNum(n) == [k |-> "num", n |-> n]
JDict(name) == [k |-> "dict", display_name |-> name]

\* bool(v)
Truthy(v) ==
    CASE v.k = "absent" -> FALSE
      [] v.k = "null" -> FALSE
      [] v.k = "str" -> v.s # <<>>
      [] v.k = "num" -> v.n # 0
      [] v.k = "dict" -> v.display_name.k # "absent"

\* d.get(key, ""): a missing key reads as the empty str
GetOrEmpty(v) == IF v.k = "absent" THEN JStr(<<>>) ELSE v

\* str(v) inside an f-string
Stringify(v) ==
    CASE v.k = "null" -> <<"None">>
      [] v.k = "str" -> v.s
      [] v.k = "num" -> <<"num", v.n>>

\* an entry of the topics list: a topic object, or something else
Topic(name, count, subfield, domain) ==
    [isdict |-> TRUE, display_name |-> name, count |-> count,
     subfield |-> subfield, domain |-> domain]
NotATopic == [isdict |-> FALSE]

\* the entries the model draws
TopicChoices ==
    { NotATopic,
      Topic(JStr(<<"T1">>), JNum(7), JDict(JStr(<<"S1">>)), JDict(JStr(<<"D1">>))),
      Topic(JStr(<<"T2">>), JAbsent, JDict(JStr(<<"S2">>)), JNull),
      Topic(JAbsent, JNum(3), JDict(JStr(<<"S1">>)), JDict(JStr(<<"D2">>))),
      Topic(JStr(<<>>), JAbsent, JDict(JStr(<<>>)), JAbsent),
      Topic(JStr(<<"T1">>), JNull, JAbsent, JDict(JStr(<<"D1">>))),
      Topic(JStr(<<"T2">>), JNum(7), JStr(<<"Physics">>), JDict(JStr(<<"D1">>))) }

\* the values of a record's "topics": a list of entries, null or an object
TopicsValues ==
    {[islist |-> TRUE, items |-> l] : l \in SeqsUpTo(TopicChoices, MaxTopics)}
        \cup {[islist |-> FALSE, items |-> <<>>]}

\* "; ".join(list)
RECURSIVE Join(_)
Join(list) ==
    IF list = <<>> THEN <<>>
    ELSE IF Len(list) = 1 THEN Head(list)
    ELSE Head(list) \o <<"; ">> \o Join(Tail(list))

\* f"{t_name} ({t_count})" if t_count != "" else t_name
DisplayFragment(t_name, t_count) ==
    IF t_count # JStr(<<>>)
    THEN Stringify(t_name) \o <<" (">> \o Stringify(t_count) \o <<")">>
    ELSE Stringify(t_name)

\* (t.get(key) or {}).get("display_name", ""): raises AttributeError when
\* the value is truthy and has no get
NestedRaises(v) == Truthy(v) /\ v.k # "dict"
NestedName(v) == IF Truthy(v) THEN GetOrEmpty(v.display_name) ELSE JStr(<<>>)

TopicsRaise == [kind |-> "raise"]
TopicsResult(disp, sub, dom) ==
    [kind |-> "ok", topics_display |-> Join(disp), topics_subfields |-> Join(sub),
     topics_domains |-> Join(dom)]

\* the loop "for t in topics" from its i-th entry on
RECURSIVE TopicsLoop(_, _, _, _, _)
TopicsLoop(items, i, disp_list, sub_list, dom_list) ==
    IF i > Len(items) THEN TopicsResult(disp_list, sub_list, dom_list)
    ELSE LET t == items[i] IN
        IF ~t.isdict THEN TopicsLoop(items, i + 1, disp_list, sub_list, dom_list)
        ELSE LET t_name == GetOrEmpty(t.display_name)
                 t_count == GetOrEmpty(t.count)
                 disp == IF Truthy(t_name)
                         THEN Append(disp_list, DisplayFragment(t_name, t_count))
                         ELSE disp_list
             IN IF NestedRaises(t.subfield) THEN TopicsRaise
                ELSE LET sf_name == NestedName(t.subfield)
                         sub == IF Truthy(sf_name) THEN Append(sub_list, sf_name.s)
                                ELSE sub_list
                     IN IF NestedRaises(t.domain) THEN TopicsRaise
                        ELSE LET dom_name == NestedName(t.domain)
                                 dom == IF Truthy(dom_name) THEN Append(dom_list, dom_name.s)
                                        ELSE dom_list
                             IN TopicsLoop(items, i + 1, disp, sub, dom)

build_topics_columns(t) ==
    IF ~t.islist THEN TopicsResult(<<>>, <<>>, <<>>)
    ELSE TopicsLoop(t.items, 1, <<>>, <<>>, <<>>)

TopicsPending == [kind |-> "pending"]

TopicsInit ==
    /\ topics \in TopicsValues
    /\ topics_cols = TopicsPending

TopicsIdle ==
    /\ topics = [islist |-> FALSE, items |-> <<>>]
    /\ topics_cols = [kind |-> "idle"]

\* line 668: the call
CallBuildTopicsColumns ==
    /\ topics_cols = TopicsPending
    /\ topics_cols' = build_topics_columns(topics)
    /\ UNCHANGED topics
    /\ UNCHANGED <<getVars, dateVars, sessVars, resVars, bldVars, tblVars, wrkVars>>

TopicsNext == CallBuildTopicsColumns

(***************************************************************************)
(* Claims about build_topics_columns (SpecTopics).                         *)
(***************************************************************************)
\* the name an entry gives a column, <<>> when it gives none: the entry is
\* no topic object, the value under the key is no object, or its name is
\* missing or empty
NameFor(t, key) ==
    IF ~t.isdict THEN <<>>
    ELSE LET v == t[key] IN
         IF v.k = "dict" /\ v.display_name.k = "str" THEN v.display_name.s ELSE <<>>

\* the display fragment an entry gives, <<>> when it gives none
DisplayFor(t) ==
    IF ~t.isdict \/ t.display_name.k # "str" \/ t.display_name.s = <<>> THEN <<>>
    ELSE IF t.count.k = "absent" THEN t.display_name.s
    ELSE t.display_name.s \o <<" (">> \o Stringify(t.count) \o <<")">>

\* the non-empty fragments of a list, in order
NonEmpty(list) == SelectSeq(list, LAMBDA f : f # <<>>)

\* C14: build_topics_columns never fails on a list of entries; each column is
\* the "; "-join, in list order, of the fragments of the entries that give
\* one, and a display fragment is "name (count)" with a count and "name"
\* without.
C14_TopicsOrderedSkipTolerant ==
    (topics_cols # TopicsPending /\ topics.islist) =>
        LET items == topics.items
            n == Len(items)
        IN /\ topics_cols.kind = "ok"
           /\ topics_cols.topics_display = Join(NonEmpty([i \in 1..n |-> DisplayFor(items[i])]))
           /\ topics_cols.topics_subfields
                 = Join(NonEmpty([i \in 1..n |-> NameFor(items[i], "subfield")]))
           /\ topics_cols.topics_domains
                 = Join(NonEmpty([i \in 1..n |-> NameFor(items[i], "domain")]))

(***************************************************************************)
(* iter_works_for_source (lines 135-172).                                  *)
(*                                                                         *)
(* A URL is kept as its parts: the filter predicates in order, the select  *)
(* fields and the text of the cursor parameter.  A cursor is a str, a list *)
(* of characters.                                                          *)
(***************************************************************************)
\* the characters urllib.parse.quote leaves alone, of those the model draws
QuoteSafe == {"c", "1", "2", "I", "w"}

\* quote(c) for one character
QuoteChar(c) ==
    CASE c \in QuoteSafe -> <<c>>
      [] c = "=" -> <<"%", "3", "D">>
      [] c = "*" -> <<"%", "2", "A">>

RECURSIVE Quote(_)
\* urllib.parse.quote(s)
Quote(s) == IF s = <<>> THEN <<>> ELSE QuoteChar(Head(s)) \o Quote(Tail(s))

RECURSIVE Unquote(_)
\* what the server reads from a quoted parameter
Unquote(s) ==
    IF s = <<>> THEN <<>>
    ELSE IF Head(s) = "%" /\ Len(s) >= 3
    THEN (IF SubSeq(s, 2, 3) = <<"3", "D">> THEN <<"=">> ELSE <<"*">>)
            \o Unquote(SubSeq(s, 4, Len(s)))
    ELSE <<Head(s)>> \o Unquote(Tail(s))

\* meta.next_cursor of a page: the key is absent, or its value is null or a str
CursorAbsent == [k |-> "absent", s |-> <<>>]
CursorNull == [k |-> "null", s |-> <<>>]
CursorStr(s) == [k |-> "str", s |-> s]

\* "if not nxt"
NoCursor(nxt) == nxt.k # "str" \/ nxt.s = <<>>

EndCursors == {CursorAbsent, CursorNull, CursorStr(<<>>)}
MoreCursors == {CursorStr(<<"c", "1">>), CursorStr(<<"I", "w", "=", "=">>)}

\* the sid argument: flat["source_id"] of the build
WorksSids == {<<"S1">>, <<"S2">>}

\* date_from / date_to: None or a date
DateBounds == {<<>>, <<"2020-01-01">>}

Predicate(key, value) == [key |-> key, value |-> value]

\* lines 146-154
Filters(s, from, to, primary, host) ==
    (IF primary THEN <<Predicate("primary_location.source.id", s)>> ELSE <<>>)
        \o (IF host THEN <<Predicate("host_venue.id", s)>> ELSE <<>>)
        \o (IF from # <<>> THEN <<Predicate("from_publication_date", from)>> ELSE <<>>)
        \o (IF to # <<>> THEN <<Predicate("to_publication_date", to)>> ELSE <<>>)

\* lines 157-161: base_url
BaseUrl(s, from, to, primary, host) ==
    [path |-> "works", per_page |-> 200, cursor |-> <<"*">>,
     filter |-> Filters(s, from, to, primary, host),
     select |-> "publication_date,cited_by_count"]

\* a cursor parameter that always restarts the listing
WithCursorRestart(url, nxt) == url

\* line 172: base_url.replace("cursor=*", f"cursor={quote(nxt)}")
WithCursor(url, nxt) == [url EXCEPT !.cursor = Quote(nxt)]

\* the works of a page as the API serves them; cited_by_count may be missing
RawWork(id, d, has_cites, c) ==
    [id |-> id, publication_date |-> d, has_cites |-> has_cites, cited_by_count |-> c]

RawWorks ==
    { RawWork("W1", StrDate(<<<<"2", "0", "2", "1">>, <<"0", "3">>, <<"1", "5">>>>), TRUE, Num(3)),
      RawWork("W2", NoneDate, FALSE, Num(0)) }

\* line 168: the dict the generator yields
YieldOf(w) ==
    Work(w.publication_date, IF w.has_cites THEN w.cited_by_count ELSE Num(0))

RECURSIVE ResultsOf(_)
\* the results of a list of pages, one after another
ResultsOf(ps) == IF ps = <<>> THEN <<>> ELSE Head(ps).results \o ResultsOf(Tail(ps))

\* one page: api_get raises, or "results" and "meta.next_cursor"; the API
\* reports no further cursor on the MaxPages-th page at the latest
WorksPageOutcomes ==
    {[ok |-> FALSE, results |-> <<>>, next_cursor |-> CursorAbsent]}
        \cup {[ok |-> TRUE, results |-> ws, next_cursor |-> nx] :
                ws \in SeqsUpTo(RawWorks, MaxWorks - Len(ResultsOf(pages))),
                nx \in EndCursors \cup (IF Len(pages) + 1 < MaxPages THEN MoreCursors ELSE {})}

WorksInit ==
    /\ wk_sid \in WorksSids
    /\ date_from \in DateBounds
    /\ date_to \in DateBounds
    /\ use_primary_location \in BOOLEAN
    /\ use_host_venue \in BOOLEAN
    /\ next_url = BaseUrl(wk_sid, date_from, date_to, use_primary_location, use_host_venue)
    /\ wk_pc = "request"
    /\ wk_requests = <<>>
    /\ pages = <<>>
    /\ pending = <<>>
    /\ yielded = <<>>

WorksIdle ==
    /\ wk_sid = <<>>
    /\ date_from = <<>>
    /\ date_to = <<>>
    /\ use_primary_location = FALSE
    /\ use_host_venue = FALSE
    /\ next_url = <<>>
    /\ wk_pc = "idle"
    /\ wk_requests = <<>>
    /\ pages = <<>>
    /\ pending = <<>>
    /\ yielded = <<>>

\* lines 169-172, after the page's last work
AfterResults(nxt) ==
    IF NoCursor(nxt)
    THEN wk_pc' = "done" /\ next_url' = next_url
    ELSE /\ wk_pc' = "request"
         /\ next_url' = WithCursor(BaseUrl(wk_sid, date_from, date_to,
                                           use_primary_location, use_host_venue), nxt.s)

\* lines 165-166: the page request
WorksRequest ==
    /\ wk_pc = "request"
    /\ wk_requests' = Append(wk_requests, next_url)
    /\ \E o \in WorksPageOutcomes :
        IF ~o.ok
        THEN /\ wk_pc' = "raised"
             /\ UNCHANGED <<next_url, pages, pending>>
        ELSE /\ pages' = Append(pages, [results |-> o.results, next_cursor |-> o.next_cursor])
             /\ IF o.results = <<>>
                THEN pending' = <<>> /\ AfterResults(o.next_cursor)
                ELSE pending' = o.results /\ wk_pc' = "yield" /\ next_url' = next_url
    /\ UNCHANGED <<wk_sid, date_from, date_to, use_primary_location, use_host_venue, yielded>>
    /\ UNCHANGED <<getVars, dateVars, sessVars, resVars, bldVars, tblVars, topVars>>

\* lines 167-168: the next work of the page is yielded
WorksYield ==
    /\ wk_pc = "yield"
    /\ yielded' = Append(yielded, YieldOf(Head(pending)))
    /\ pending' = Tail(pending)
    /\ IF Tail(pending) = <<>>
       THEN AfterResults(pages[Len(pages)].next_cursor)
       ELSE wk_pc' = "yield" /\ next_url' = next_url
    /\ UNCHANGED <<wk_sid, date_from, date_to, use_primary_location, use_host_venue,
                   wk_requests, pages>>
    /\ UNCHANGED <<getVars, dateVars, sessVars, resVars, bldVars, tblVars, topVars>>

WorksNext == WorksRequest \/ WorksYield

(***************************************************************************)
(* Claims about iter_works_for_source (SpecWorks, SpecWorksFair).          *)
(***************************************************************************)
\* "f(x) for x in seq"
YieldsOf(seq) == [i \in 1..Len(seq) |-> YieldOf(seq[i])]

\* what holds of the generator at every moment: a request was made for every
\* page received (and one more when the last request failed); the first
\* request carries the cursor "*" and the i-th the cursor the (i-1)-th page
\* returned; no request follows a page without a cursor; the works yielded so
\* far and those pending are the works of the pages received, in page order;
\* the generator has ended normally exactly when the last page had no cursor
\* and all its works are yielded.
PagingInvariant ==
    /\ Len(wk_requests) = Len(pages) + (IF wk_pc = "raised" THEN 1 ELSE 0)
    /\ \A i \in 1..Len(wk_requests) :
          /\ wk_requests[i].filter = wk_requests[1].filter
          /\ Unquote(wk_requests[i].cursor)
                = (IF i = 1 THEN <<"*">> ELSE pages[i - 1].next_cursor.s)
    /\ wk_requests # <<>> => wk_requests[1].cursor = <<"*">>
    /\ \A i \in 1..Len(pages) : NoCursor(pages[i].next_cursor) => i = Len(wk_requests)
    /\ yielded \o YieldsOf(pending) = YieldsOf(ResultsOf(pages))
    /\ wk_pc = "done" <=>
          /\ pages # <<>>
          /\ NoCursor(pages[Len(pages)].next_cursor)
          /\ pending = <<>>
    /\ wk_pc = "done" => yielded = YieldsOf(ResultsOf(pages))

\* the generator has ended, normally or by an exception of api_get
WorksEnded == wk_pc \in {"done", "raised"}

\* C16: the generator requests each page once with the cursor the previous
\* page returned, yields every work of every page received once and in page
\* order, ends as soon as a page carries no next cursor (absent, null or
\* empty), and does end when the API eventually reports no further cursor.
C16_PagingTerminates == []PagingInvariant /\ <>WorksEnded

\* two pages were received, the second reached with a cursor that quote()
\* rewrites, and the work of the final page was yielded
C16_Witness ==
    /\ wk_pc = "done"
    /\ Len(pages) = 2
    /\ pages[1].next_cursor = CursorStr(<<"I", "w", "=", "=">>)
    /\ wk_requests[2].cursor = <<"I", "w", "%", "3", "D", "%", "3", "D">>
    /\ pages[2].results # <<>>
    /\ Len(yielded) = 2

\* the filter keys that restrict a works query to one source
SourceKeys == {"primary_location.source.id", "host_venue.id"}

\* C20: whatever the two flags and the date bounds, every works request of
\* the generator carries a filter predicate that names the source it was
\* called for.
C20_RequestsScoped ==
    \A i \in 1..Len(wk_requests) :
        \E j \in 1..Len(wk_requests[i].filter) :
            /\ wk_requests[i].filter[j].key \in SourceKeys
            /\ wk_requests[i].filter[j].value = wk_sid

(***************************************************************************)
(* Specifications.                                                         *)
(***************************************************************************)
\* st.session_state while no handler has touched it
SessIdle == candidates_map = EmptyDict /\ selections_map = EmptyDict

\* the variables of the specifications added below, untouched
AuxIdle == TableIdle /\ TopicsIdle /\ WorksIdle

InitGet == GetInit /\ DateIdle /\ SessIdle /\ ResolveIdle /\ BuildIdle /\ AuxIdle
SpecGet == InitGet /\ [][GetNext]_vars

InitDate == DateInit /\ GetIdle /\ SessIdle /\ ResolveIdle /\ BuildIdle /\ AuxIdle
SpecDate == InitDate /\ [][DateNext]_vars

InitResolve == ResolveInit /\ GetIdle /\ DateIdle /\ BuildIdle /\ AuxIdle
SpecResolve == InitResolve /\ [][ResolveNext]_vars

InitBuild == BuildInit /\ GetIdle /\ DateIdle /\ ResolveIdle /\ AuxIdle
SpecBuild == InitBuild /\ [][BuildNext]_vars

\* the state of everything the first four specifications own, untouched
CoreIdle == GetIdle /\ DateIdle /\ SessIdle /\ ResolveIdle /\ BuildIdle

InitTable == TableInit /\ CoreIdle /\ TopicsIdle /\ WorksIdle
SpecTable == InitTable /\ [][TableNext]_vars

InitTopics == TopicsInit /\ CoreIdle /\ TableIdle /\ WorksIdle
SpecTopics == InitTopics /\ [][TopicsNext]_vars

InitWorks == WorksInit /\ CoreIdle /\ TableIdle /\ TopicsIdle
SpecWorks == InitWorks /\ [][WorksNext]_vars
\* the consumer keeps iterating and every api_get call ends (timeout=60)
SpecWorksFair == SpecWorks /\ WF_vars(WorksNext)

====
